---- MODULE Spec2Model ----
(***************************************************************************)
(* A model of liteSeq2Seq.py (class Seq2seq): the hyperparameter merge,    *)
(* the learning-rate generator, the checkpoint directory on disk, and the  *)
(* instance operations load, predict and _train.                           *)
(*                                                                         *)
(* Python values.  None is the empty tuple, an int n is <<n>> and a float  *)
(* p/q is <<p, q>>, so that a field may hold None or a number and the two  *)
(* can be compared.  bool is a subclass of int in Python: False is <<0>>.  *)
(* A path is the tuple of its components: os.path.join appends one,        *)
(* os.path.basename is the last.                                           *)
(***************************************************************************)
EXTENDS Integers, Sequences, FiniteSets, TLC

VARIABLES
    mBase,      \* _merge: argument base_hyp
    mNew,       \* _merge: argument new_hyp
    mOut,       \* _merge: the returned tuple, None before the call
    lr_args,    \* lr_schedule: the arguments of the call
    lr_gen,     \* lr_schedule: the generator's frame (global_step, start_p, lr)
    lr_out,     \* lr_schedule: the values yielded so far
    self,       \* the Seq2seq instance
    fs,         \* the checkpoint directories on disk
    pc,         \* where the running operation is
    loc,        \* the local variables of _train
    ret,        \* the last operation and how it ended
    bleu_args,  \* _bleu: the arguments of the call
    bleu_out,   \* _bleu: how the call ended, None before it
    dict_args,  \* _parse_dict: the lines of the file and vocab_remain_rate
    dict_out,   \* _parse_dict: the returned pair, None before the call
    seq_args,   \* _parse_seq: the two files, the dictionaries, the hyperparameters
    seq,        \* _parse_seq: where the call is, its locals and how it ended
    pad_args,   \* _padding_batch: the arguments the generator was made with
    pad,        \* _padding_batch: the generator's frame and the batches yielded
    tok_args,   \* a string and the encoder vocabulary given to predict and _parse_seq
    tok_out     \* the ids predict and _parse_seq make of the string, None before

vars == <<mBase, mNew, mOut, lr_args, lr_gen, lr_out, self, fs, pc, loc, ret,
          bleu_args, bleu_out, dict_args, dict_out, seq_args, seq, pad_args, pad,
          tok_args, tok_out>>

mergeVars == <<mBase, mNew, mOut>>
lrVars == <<lr_args, lr_out>>
instVars == <<self, fs, pc, loc, ret>>
bleuVars == <<bleu_args, bleu_out>>
dictVars == <<dict_args, dict_out>>
seqVars == <<seq_args, seq>>
padVars == <<pad_args, pad>>
tokVars == <<tok_args, tok_out>>
fnVars == <<bleuVars, dictVars, seqVars, padVars, tokVars>>

(***************************************************************************)
(* Bounds of the model.                                                    *)
(***************************************************************************)
MaxStart == 3     \* largest start_p given to lr_schedule
MaxEvery == 3     \* largest every_step given to lr_schedule
MaxYield == 9     \* values drawn from one lr_schedule generator
MaxSeqs == 4      \* largest number of sequence pairs _parse_seq returns
MaxCkptStep == 3  \* largest global step of a checkpoint a training run resumes from
RunSeqs == 2      \* sequence pairs of the corpus in the runs of the whole program
RunCkptStep == 1  \* largest global step resumed from in the runs of the whole program
MaxSentLen == 2   \* longest sentence over BleuTokens given to _bleu
MaxLines == 2     \* most lines of a corpus file
MaxLineLen == 2   \* most words of a line of a corpus file
MaxSeqLines == 2  \* most lines of a file given to _parse_seq
MaxPairs == 3     \* most pairs of sequences given to _padding_batch
MaxNext == 4      \* most calls of next() on one _padding_batch generator
MaxTokens == 3    \* most words of a string given to predict

(***************************************************************************)
(* Python values                                                           *)
(***************************************************************************)
None == <<>>
I(n) == <<n>>
R(p, q) == <<p, q>>
IntOf(v) == v[1]

\* bool(v) of None or a number
Truthy(v) == v # None /\ v[1] # 0

\* float('inf'): larger than every step count and length of the model
Inf == 1000000

Min(a, b) == IF a <= b THEN a ELSE b

\* p/q * r/s, and equality of two floats held as fractions
RatMul(a, b) == <<a[1] * b[1], a[2] * b[2]>>
RatEq(a, b) == a[1] * b[2] = b[1] * a[2]
AsRat(v) == IF Len(v) = 1 THEN <<v[1], 1>> ELSE v

RECURSIVE RatPow(_, _)
RatPow(a, n) == IF n = 0 THEN <<1, 1>> ELSE RatMul(a, RatPow(a, n - 1))

\* int(n * p/q) for n, p >= 0
IntOfProduct(n, v) == (n * AsRat(v)[1]) \div AsRat(v)[2]

(***************************************************************************)
(* Seq2seq._merge                                                          *)
(***************************************************************************)
\* mutant: the override is dropped
MergeKeepsBase(base_hyp, new_hyp) == base_hyp

\* Hyparams(*[n_v or o_v for o_v, n_v in zip(base_hyp, new_hyp)])
Merge(base_hyp, new_hyp) ==
    [f \in DOMAIN base_hyp |-> IF Truthy(new_hyp[f]) THEN new_hyp[f] ELSE base_hyp[f]]

MergeFields == {"x", "y"}
MergeValues == {None, I(0), I(4), I(7)}

InitMerge ==
    /\ mBase \in [MergeFields -> MergeValues]
    /\ mNew \in [MergeFields -> MergeValues]
    /\ mOut = None

CallMerge ==
    /\ mOut = None
    /\ mOut' = <<Merge(mBase, mNew)>>
    /\ UNCHANGED <<mBase, mNew, lr_gen, lrVars, instVars, fnVars>>

(***************************************************************************)
(* Seq2seq.lr_schedule                                                     *)
(***************************************************************************)
\* the frame of a generator that has not run yet
LrGenNew(lr, start_p, every_step, decay_rate) ==
    [global_step |-> 0, start_p |-> start_p, lr |-> AsRat(lr),
     every_step |-> every_step, decay_rate |-> AsRat(decay_rate)]

\* mutant: the decay starts when the counter reaches start_p
LrGenNextAtStart(g) ==
    IF g.global_step >= g.start_p
    THEN [g EXCEPT !.start_p = g.start_p + g.every_step,
                   !.lr = RatMul(g.lr, g.decay_rate),
                   !.global_step = g.global_step + 1]
    ELSE [g EXCEPT !.global_step = g.global_step + 1]

\* one next(): the frame at the yield; the value yielded is its lr
LrGenNext(g) ==
    IF g.global_step > g.start_p
    THEN [g EXCEPT !.start_p = g.start_p + g.every_step,
                   !.lr = RatMul(g.lr, g.decay_rate),
                   !.global_step = g.global_step + 1]
    ELSE [g EXCEPT !.global_step = g.global_step + 1]

LrRates == {R(1, 10)}
LrDecays == {R(1, 2), R(1, 3)}

NoGen == LrGenNew(R(0, 1), 0, 0, R(0, 1))
NoLrArgs == [lr |-> R(0, 1), start_p |-> 0, every_step |-> 0, decay_rate |-> R(0, 1)]

InitLr ==
    /\ \E lr \in LrRates, s \in 0..MaxStart, e \in 1..MaxEvery, d \in LrDecays :
          /\ lr_args = [lr |-> lr, start_p |-> s, every_step |-> e, decay_rate |-> d]
          /\ lr_gen = LrGenNew(lr, s, e, d)
    /\ lr_out = <<>>

NextLr ==
    /\ Len(lr_out) < MaxYield
    /\ lr_gen' = LrGenNext(lr_gen)
    /\ lr_out' = Append(lr_out, lr_gen'.lr)
    /\ UNCHANGED <<lr_args, mergeVars, instVars, fnVars>>

(***************************************************************************)
(* Hyparams and the class defaults.  The model keeps the fields that the   *)
(* training loop, the scheduler and the validation split read; the other   *)
(* fields only size the numeric graph.                                     *)
(***************************************************************************)
HypFields ==
    {"valid_portion", "train_batch_size", "epoch", "max_global_step",
     "learning_rate", "decay_rate", "decay_every", "decay_start_at", "n_buckets",
     "report_every", "show_every", "save_every"}

\* Seq2seq.hyparams, the class variable
DefaultHyparams ==
    [valid_portion |-> R(1, 20), train_batch_size |-> I(32), epoch |-> I(10),
     max_global_step |-> I(Inf), learning_rate |-> R(1, 1000), decay_rate |-> R(1, 2),
     decay_every |-> I(1000), decay_start_at |-> I(8000), n_buckets |-> I(50),
     report_every |-> I(50), show_every |-> I(200), save_every |-> I(500)]

NoOverride == [f \in HypFields |-> None]

(***************************************************************************)
(* Paths and the checkpoint directories                                    *)
(***************************************************************************)
Join(path, name) == Append(path, name)
\* mutant: the first component of the path instead of the last
Dirname(path) == path[1]
Basename(path) == path[Len(path)]

\* Seq2seq.model_path
ModelPath == <<"models">>

Ids == {"a", "b"}
PretrainedDir == <<"pretrained", "a">>
DirPaths == {Join(ModelPath, i) : i \in Ids} \cup {PretrainedDir}

Some(x) == <<x>>

\* an empty directory
EmptyDir ==
    [checkpoint |-> None, meta |-> FALSE, dictionary |-> None, hparams |-> None,
     tensorboard |-> FALSE]

IsDir(disk, path) == disk[path] # None

(***************************************************************************)
(* Corpora.  A corpus is taken as what _parse_dict and _parse_seq return   *)
(* for it: the kept words of each side and the number of retained pairs.   *)
(***************************************************************************)
Reserved == <<"<PAD>", "<UNK>", "<GO>", "<EOS>">>
Words == <<"hello", "world">>

IntToVocab(vocabs) == [i \in 0..(Len(vocabs) - 1) |-> vocabs[i + 1]]
VocabToInt(vocabs) ==
    [w \in {vocabs[i] : i \in 1..Len(vocabs)} |->
        (CHOOSE i \in 1..Len(vocabs) : vocabs[i] = w) - 1]

\* the 4-tuple _train pickles into the file 'dictionary'
Dictionary(enc_vocabs, dec_vocabs) ==
    [encoder_int_to_vocab |-> IntToVocab(enc_vocabs),
     encoder_vocab_to_int |-> VocabToInt(enc_vocabs),
     decoder_int_to_vocab |-> IntToVocab(dec_vocabs),
     decoder_vocab_to_int |-> VocabToInt(dec_vocabs)]

\* the corpus with n retained pairs: its first words, the decoder side one fewer
CorpusDictionary(n) ==
    Dictionary(Reserved \o SubSeq(Words, 1, Min(n, Len(Words))),
               Reserved \o SubSeq(Words, 1, Min(n, Len(Words)) - (IF n > 0 THEN 1 ELSE 0)))

(***************************************************************************)
(* The instance                                                            *)
(***************************************************************************)
\* Seq2seq.__init__: no dictionary, graph or session attribute yet
NewInstance(id, init_hyparams) ==
    [id |-> id,
     model_ckpt_dir |-> Join(ModelPath, id),
     model_ckpt_path |-> Join(Join(ModelPath, id), "checkpoint.ckpt"),
     init_hyparams |-> init_hyparams,
     hyparams |-> Merge(DefaultHyparams, init_hyparams),
     dictionary |-> None,
     graph |-> "",
     sess |-> None]

NoLoc ==
    [load_model_path |-> None, n_seqs |-> 0, n_valid |-> 0, n_batch |-> 0,
     epoch_i |-> 0, batch_i |-> 0, valid_i |-> 0, g_step |-> 0,
     fed_at |-> None, lr_val |-> None, prediction_at |-> None, shown |-> None,
     restored_step |-> 0,
     valid_idx_set |-> {}, valid_encode_seqs |-> <<>>, valid_decode_seqs |-> <<>>,
     train_encode_seqs |-> <<>>, train_decode_seqs |-> <<>>]

Ret(op, raised) == [op |-> op, raised |-> raised, load_path |-> None]

(***************************************************************************)
(* Seq2seq.load                                                            *)
(***************************************************************************)
\* mutant: the graph and the session are made before the files are looked at
LoadSessionFirst(s, disk, path) ==
    IF ~IsDir(disk, path)
    THEN [self |-> s, raised |-> "ValueError"]
    ELSE
      LET d == disk[path][1]
          s1 == [s EXCEPT !.id = Basename(path),
                          !.model_ckpt_dir = path,
                          !.model_ckpt_path = Join(path, "checkpoint.ckpt"),
                          !.graph = "empty",
                          !.sess = Some([global_step |-> None])]
      IN  IF d.checkpoint = None \/ d.dictionary = None \/ d.hparams = None
          THEN [self |-> s1, raised |-> "ValueError"]
          ELSE
            LET s2 == [s1 EXCEPT !.dictionary = d.dictionary,
                                 !.hyparams = Merge(d.hparams[1], s.init_hyparams)]
            IN  IF ~d.meta
                THEN [self |-> s2, raised |-> "OSError"]
                ELSE [self |-> [s2 EXCEPT !.graph = "model",
                                          !.sess = Some([global_step |-> d.checkpoint])],
                      raised |-> ""]

\* mutant: the pickled hyperparameters are read and not assigned
LoadKeepsHyparams(s, disk, path) ==
    IF ~IsDir(disk, path)
    THEN [self |-> s, raised |-> "ValueError"]
    ELSE
      LET d == disk[path][1]
          s1 == [s EXCEPT !.id = Basename(path),
                          !.model_ckpt_dir = path,
                          !.model_ckpt_path = Join(path, "checkpoint.ckpt")]
      IN  IF d.checkpoint = None \/ d.dictionary = None \/ d.hparams = None
          THEN [self |-> s1, raised |-> "ValueError"]
          ELSE
            LET s2 == [s1 EXCEPT !.dictionary = d.dictionary]
            IN  IF ~d.meta
                THEN [self |-> [s2 EXCEPT !.graph = "empty",
                                          !.sess = Some([global_step |-> None])],
                      raised |-> "OSError"]
                ELSE [self |-> [s2 EXCEPT !.graph = "model",
                                          !.sess = Some([global_step |-> d.checkpoint])],
                      raised |-> ""]

\* load(path) on the instance s: the instance it leaves and the error it raises
\* ("" when it returns).  The session is made before import_meta_graph reads
\* checkpoint.ckpt.meta, whose absence raises with the session in place.
LoadOf(s, disk, path) ==
    IF ~IsDir(disk, path)
    THEN [self |-> s, raised |-> "ValueError"]
    ELSE
      LET d == disk[path][1]
          s1 == [s EXCEPT !.id = Basename(path),
                          !.model_ckpt_dir = path,
                          !.model_ckpt_path = Join(path, "checkpoint.ckpt")]
      IN  IF d.checkpoint = None \/ d.dictionary = None \/ d.hparams = None
          THEN [self |-> s1, raised |-> "ValueError"]
          ELSE
            LET s2 == [s1 EXCEPT !.dictionary = d.dictionary,
                                 !.hyparams = Merge(d.hparams[1], s.init_hyparams)]
            IN  IF ~d.meta
                THEN [self |-> [s2 EXCEPT !.graph = "empty",
                                          !.sess = Some([global_step |-> None])],
                      raised |-> "OSError"]
                ELSE [self |-> [s2 EXCEPT !.graph = "model",
                                          !.sess = Some([global_step |-> d.checkpoint])],
                      raised |-> ""]

\* load(path), called on an idle instance
Load(path) ==
    /\ pc = "idle"
    /\ LET r == LoadOf(self, fs, path)
       IN  /\ self' = r.self
           /\ ret' = Ret("load", r.raised)
    /\ UNCHANGED <<fs, pc, loc, lr_gen, mergeVars, lrVars, fnVars>>

(***************************************************************************)
(* Seq2seq.predict                                                         *)
(***************************************************************************)
\* mutant: predict loads on every call
PredictAlwaysLoads(s) == TRUE

\* not hasattr(self, 'sess')
PredictNeedsLoad(s) == s.sess = None

\* predict(encode_str): the lookups of the tensors by name raise on a graph
\* into which nothing was imported
Predict ==
    /\ pc = "idle"
    /\ IF PredictNeedsLoad(self)
       THEN LET r == LoadOf(self, fs, self.model_ckpt_dir)
            IN  /\ self' = r.self
                /\ ret' = [Ret("predict", r.raised) EXCEPT
                              !.load_path = Some(self.model_ckpt_dir)]
       ELSE /\ self' = self
            /\ ret' = Ret("predict", IF self.graph = "model" THEN "" ELSE "KeyError")
    /\ UNCHANGED <<fs, pc, loc, lr_gen, mergeVars, lrVars, fnVars>>

(***************************************************************************)
(* Seq2seq.set_id                                                          *)
(***************************************************************************)
\* a set_id that takes the new id before it looks for the directory
SetIdBeforeCheck(new_id) ==
    /\ pc = "idle"
    /\ self' = [self EXCEPT !.id = new_id,
                             !.model_ckpt_dir = Join(ModelPath, new_id),
                             !.model_ckpt_path =
                                 Join(Join(ModelPath, new_id), "checkpoint.ckpt")]
    /\ IF IsDir(fs, Join(ModelPath, new_id))
       THEN /\ ret' = Ret("set_id", "RuntimeError")
            /\ fs' = fs
       ELSE /\ fs' = IF IsDir(fs, self.model_ckpt_dir)
                     THEN [fs EXCEPT ![Join(ModelPath, new_id)] = fs[self.model_ckpt_dir],
                                     ![self.model_ckpt_dir] = None]
                     ELSE fs
            /\ ret' = Ret("set_id", "")
    /\ UNCHANGED <<pc, loc, lr_gen, mergeVars, lrVars, fnVars>>

SetId(new_id) ==
    /\ pc = "idle"
    /\ IF IsDir(fs, Join(ModelPath, new_id))
       THEN /\ ret' = Ret("set_id", "RuntimeError")
            /\ UNCHANGED <<self, fs>>
       ELSE /\ self' = [self EXCEPT !.id = new_id,
                                    !.model_ckpt_dir = Join(ModelPath, new_id),
                                    !.model_ckpt_path =
                                        Join(Join(ModelPath, new_id), "checkpoint.ckpt")]
            /\ fs' = IF IsDir(fs, self.model_ckpt_dir)
                     THEN [fs EXCEPT ![Join(ModelPath, new_id)] = fs[self.model_ckpt_dir],
                                     ![self.model_ckpt_dir] = None]
                     ELSE fs
            /\ ret' = Ret("set_id", "")
    /\ UNCHANGED <<pc, loc, lr_gen, mergeVars, lrVars, fnVars>>

(***************************************************************************)
(* Seq2seq._train                                                          *)
(***************************************************************************)
Hp(f) == IntOf(self.hyparams[f])

GlobalStep(s) == IntOf(s.sess[1].global_step)

WithGlobalStep(s, n) == [s EXCEPT !.sess = Some([global_step |-> I(n)])]

\* mutant: a fresh start that leaves the files 'dictionary' and 'hparams' unwritten
TrainFreshNoFiles(n, built) ==
    /\ pc = "idle"
    /\ IF n = 0 /\ Hp("n_buckets") > 1
       THEN /\ self' = [self EXCEPT !.dictionary = Some(CorpusDictionary(n))]
            /\ ret' = Ret("_train", "ValueError")
            /\ UNCHANGED <<fs, pc, loc>>
       ELSE IF ~built
       THEN /\ self' = [self EXCEPT !.dictionary = Some(CorpusDictionary(n)),
                                    !.graph = "partial"]
            /\ ret' = Ret("_train", "ValueError")
            /\ UNCHANGED <<fs, pc, loc>>
       ELSE /\ self' = [self EXCEPT !.dictionary = Some(CorpusDictionary(n)),
                                    !.graph = "model",
                                    !.sess = Some([global_step |-> I(0)])]
            /\ fs' = [fs EXCEPT ![self.model_ckpt_dir] =
                        Some(IF IsDir(fs, self.model_ckpt_dir)
                             THEN fs[self.model_ckpt_dir][1] ELSE EmptyDir)]
            /\ pc' = "setup"
            /\ loc' = [NoLoc EXCEPT !.n_seqs = n]
            /\ ret' = Ret("_train", "running")
    /\ UNCHANGED <<lr_gen, mergeVars, lrVars, fnVars>>

\* mutant: a fresh start that makes the session and the directory before the graph
TrainFreshSessionFirst(n, built) ==
    /\ pc = "idle"
    /\ IF n = 0 /\ Hp("n_buckets") > 1
       THEN /\ self' = [self EXCEPT !.dictionary = Some(CorpusDictionary(n))]
            /\ ret' = Ret("_train", "ValueError")
            /\ UNCHANGED <<fs, pc, loc>>
       ELSE IF ~built
       THEN /\ self' = [self EXCEPT !.dictionary = Some(CorpusDictionary(n)),
                                    !.graph = "partial",
                                    !.sess = Some([global_step |-> None])]
            /\ fs' = [fs EXCEPT ![self.model_ckpt_dir] =
                        Some(IF IsDir(fs, self.model_ckpt_dir)
                             THEN fs[self.model_ckpt_dir][1] ELSE EmptyDir)]
            /\ ret' = Ret("_train", "ValueError")
            /\ UNCHANGED <<pc, loc>>
       ELSE /\ self' = [self EXCEPT !.dictionary = Some(CorpusDictionary(n)),
                                    !.graph = "model",
                                    !.sess = Some([global_step |-> I(0)])]
            /\ fs' = [fs EXCEPT ![self.model_ckpt_dir] =
                        Some([(IF IsDir(fs, self.model_ckpt_dir)
                               THEN fs[self.model_ckpt_dir][1] ELSE EmptyDir)
                              EXCEPT !.dictionary = Some(CorpusDictionary(n)),
                                     !.hparams = Some(self.hyparams)])]
            /\ pc' = "setup"
            /\ loc' = [NoLoc EXCEPT !.n_seqs = n]
            /\ ret' = Ret("_train", "running")
    /\ UNCHANGED <<lr_gen, mergeVars, lrVars, fnVars>>

\* _train(..., load_model_path=None) up to the end of its first branch: the
\* dictionaries and the sequences of a corpus with n retained pairs, the graph,
\* the session, and the files 'dictionary' and 'hparams'.  With n_buckets > 1
\* the bucketizing takes max() of the lengths, which raises on no pair.  The
\* graph is assigned as soon as it is created; built tells whether the calls
\* that construct it under the hyperparameters all return, and when one raises
\* the session and the files are not reached.
TrainFresh(n, built) ==
    /\ pc = "idle"
    /\ IF n = 0 /\ Hp("n_buckets") > 1
       THEN /\ self' = [self EXCEPT !.dictionary = Some(CorpusDictionary(n))]
            /\ ret' = Ret("_train", "ValueError")
            /\ UNCHANGED <<fs, pc, loc>>
       ELSE IF ~built
       THEN /\ self' = [self EXCEPT !.dictionary = Some(CorpusDictionary(n)),
                                    !.graph = "partial"]
            /\ ret' = Ret("_train", "ValueError")
            /\ UNCHANGED <<fs, pc, loc>>
       ELSE /\ self' = [self EXCEPT !.dictionary = Some(CorpusDictionary(n)),
                                    !.graph = "model",
                                    !.sess = Some([global_step |-> I(0)])]
            /\ fs' = [fs EXCEPT ![self.model_ckpt_dir] =
                        Some([(IF IsDir(fs, self.model_ckpt_dir)
                               THEN fs[self.model_ckpt_dir][1] ELSE EmptyDir)
                              EXCEPT !.dictionary = Some(CorpusDictionary(n)),
                                     !.hparams = Some(self.hyparams)])]
            /\ pc' = "setup"
            /\ loc' = [NoLoc EXCEPT !.n_seqs = n]
            /\ ret' = Ret("_train", "running")
    /\ UNCHANGED <<lr_gen, mergeVars, lrVars, fnVars>>

\* the checkpoint at path, if there is one, is of a global step up to cap
CkptWithin(path, cap) ==
    ~(/\ IsDir(fs, path)
      /\ fs[path][1].checkpoint # None
      /\ IntOf(fs[path][1].checkpoint) > cap)

\* _train(..., load_model_path=path) up to the end of its second branch
TrainResume(path, n) ==
    /\ pc = "idle"
    /\ LET r == LoadOf(self, fs, path)
       IN  IF r.raised # ""
           THEN /\ self' = r.self
                /\ ret' = Ret("_train", r.raised)
                /\ UNCHANGED <<pc, loc>>
           ELSE IF n = 0 /\ IntOf(r.self.hyparams.n_buckets) > 1
           THEN /\ self' = r.self
                /\ ret' = Ret("_train", "ValueError")
                /\ UNCHANGED <<pc, loc>>
           ELSE /\ self' = r.self
                /\ pc' = "setup"
                /\ loc' = [NoLoc EXCEPT !.n_seqs = n, !.load_model_path = Some(path)]
                /\ ret' = Ret("_train", "running")
    /\ UNCHANGED <<fs, lr_gen, mergeVars, lrVars, fnVars>>

\* n_valid_data
NValid(n, hyp) ==
    (IntOfProduct(n, hyp.valid_portion) \div IntOf(hyp.train_batch_size))
        * IntOf(hyp.train_batch_size)

\* self.encode_seqs and self.decode_seqs of a corpus with n retained pairs: a
\* sequence is named by its side and by its index in the corpus, from 0
EncodeSeqs(n) == [i \in 1..n |-> <<"encode", i - 1>>]
DecodeSeqs(n) == [i \in 1..n |-> <<"decode", i - 1>>]

\* set(np.random.choice(np.arange(n), n_valid_data, replace=False)): any
\* n_valid_data indices of the corpus
ValidIdxSets(n, n_valid_data) ==
    {S \in SUBSET (0..(n - 1)) : Cardinality(S) = n_valid_data}

\* [seq for i, seq in enumerate(seqs) if i in idxs]
Enumerated(seqs, idxs) ==
    LET pick[k \in 0..Len(seqs)] ==
            IF k = 0 THEN <<>>
            ELSE IF (k - 1) \in idxs THEN Append(pick[k - 1], seqs[k])
            ELSE pick[k - 1]
    IN  pick[Len(seqs)]

\* mutant: the training lists take every pair
TrainIdxsAll(n, valid_idx_set) == 0..(n - 1)

\* the indices i with i not in valid_idx_set
TrainIdxs(n, valid_idx_set) == (0..(n - 1)) \ valid_idx_set

\* the validation split, the saver, the scheduler, the summary writer and the
\* batches passed over before the loop starts
TrainSetup ==
    /\ pc = "setup"
    /\ \E valid_idx_set \in ValidIdxSets(loc.n_seqs, NValid(loc.n_seqs, self.hyparams)) :
        LET n_valid == NValid(loc.n_seqs, self.hyparams)
            valid_encode_seqs == Enumerated(EncodeSeqs(loc.n_seqs), valid_idx_set)
            valid_decode_seqs == Enumerated(DecodeSeqs(loc.n_seqs), valid_idx_set)
            train_encode_seqs ==
                Enumerated(EncodeSeqs(loc.n_seqs), TrainIdxs(loc.n_seqs, valid_idx_set))
            train_decode_seqs ==
                Enumerated(DecodeSeqs(loc.n_seqs), TrainIdxs(loc.n_seqs, valid_idx_set))
            n_batch == Len(train_encode_seqs) \div Hp("train_batch_size")
        IN  /\ fs' = [fs EXCEPT ![self.model_ckpt_dir] =
                         Some([fs[self.model_ckpt_dir][1] EXCEPT !.tensorboard = TRUE])]
            /\ IF n_batch = 0
               THEN /\ pc' = "idle"
                    /\ ret' = [ret EXCEPT !.raised = "ZeroDivisionError"]
                    /\ loc' = NoLoc
                    /\ lr_gen' = NoGen
               ELSE LET g_step == GlobalStep(self) % n_batch
                        start_epoch == 1 + g_step \div n_batch
                    IN  IF start_epoch > Hp("epoch")
                        THEN /\ pc' = "idle"
                             /\ ret' = [ret EXCEPT !.raised = ""]
                             /\ loc' = NoLoc
                             /\ lr_gen' = NoGen
                        ELSE /\ pc' = "batch"
                             /\ ret' = ret
                             /\ loc' = [loc EXCEPT !.n_valid = n_valid,
                                                   !.n_batch = n_batch,
                                                   !.g_step = g_step,
                                                   !.batch_i = g_step,
                                                   !.epoch_i = start_epoch,
                                                   !.restored_step = GlobalStep(self),
                                                   !.valid_idx_set = valid_idx_set,
                                                   !.valid_encode_seqs = valid_encode_seqs,
                                                   !.valid_decode_seqs = valid_decode_seqs,
                                                   !.train_encode_seqs = train_encode_seqs,
                                                   !.train_decode_seqs = train_decode_seqs]
                             /\ lr_gen' = LrGenNew(self.hyparams.learning_rate,
                                                   Hp("decay_start_at"), Hp("decay_every"),
                                                   self.hyparams.decay_rate)
    /\ UNCHANGED <<self, mergeVars, lrVars, fnVars>>

\* the next batch of the epoch: next(lr_gen) and one run of train_op, which
\* adds one to global_step; g_step is the counter read back after the update
TrainStep ==
    /\ pc = "batch"
    /\ loc.batch_i < loc.n_batch
    /\ lr_gen' = LrGenNext(lr_gen)
    /\ self' = WithGlobalStep(self, GlobalStep(self) + 1)
    /\ loc' = [loc EXCEPT !.batch_i = loc.batch_i + 1,
                          !.lr_val = lr_gen'.lr,
                          !.fed_at = I(GlobalStep(self)),
                          !.g_step = GlobalStep(self) + 1]
    /\ pc' = "report"
    /\ UNCHANGED <<fs, ret, mergeVars, lrVars, fnVars>>

\* the batch generator is exhausted: the check after the batch loop, then a
\* new generator for the next epoch, if there is one
TrainEpochEnd ==
    /\ pc = "batch"
    /\ loc.batch_i >= loc.n_batch
    /\ IF loc.g_step > Hp("max_global_step") \/ loc.epoch_i + 1 > Hp("epoch")
       THEN /\ pc' = "idle"
            /\ ret' = [ret EXCEPT !.raised = ""]
            /\ loc' = NoLoc
            /\ lr_gen' = NoGen
       ELSE /\ pc' = "batch"
            /\ loc' = [loc EXCEPT !.batch_i = 0, !.epoch_i = loc.epoch_i + 1]
            /\ UNCHANGED <<ret, lr_gen>>
    /\ UNCHANGED <<self, fs, mergeVars, lrVars, fnVars>>

\* batches one pass of the validation generator yields
NValidBatch == Len(loc.valid_decode_seqs) \div Hp("train_batch_size")

\* the validation report.  The generator is made with forever=True: with no
\* full batch to yield its while loop runs without ever yielding, and next()
\* does not return; the step is then not enabled.
TrainReport ==
    /\ pc = "report"
    /\ IF loc.g_step % Hp("report_every") = 0
       THEN /\ NValidBatch > 0
            /\ loc' = [loc EXCEPT !.valid_i = (loc.valid_i + 1) % NValidBatch,
                                  !.prediction_at = I(loc.g_step)]
       ELSE loc' = loc
    /\ pc' = "show"
    /\ UNCHANGED <<self, fs, ret, lr_gen, mergeVars, lrVars, fnVars>>

\* the example display, which reads prediction_lists, valid_inputs and
\* valid_targets: names bound only by a validation report
TrainShow ==
    /\ pc = "show"
    /\ IF loc.g_step % Hp("show_every") = 0 /\ loc.prediction_at = None
       THEN /\ pc' = "idle"
            /\ ret' = [ret EXCEPT !.raised = "UnboundLocalError"]
            /\ loc' = NoLoc
            /\ lr_gen' = NoGen
       ELSE /\ pc' = "save"
            /\ loc' = IF loc.g_step % Hp("show_every") = 0
                      THEN [loc EXCEPT !.shown =
                               Some([at |-> loc.g_step, of |-> IntOf(loc.prediction_at)])]
                      ELSE loc
            /\ UNCHANGED <<ret, lr_gen>>
    /\ UNCHANGED <<self, fs, mergeVars, lrVars, fnVars>>

\* saver.save(sess, model_ckpt_path, write_meta_graph=True), then the summary
TrainSave ==
    /\ pc = "save"
    /\ fs' = IF loc.g_step % Hp("save_every") = 0
             THEN [fs EXCEPT ![self.model_ckpt_dir] =
                      Some([fs[self.model_ckpt_dir][1] EXCEPT
                               !.checkpoint = I(GlobalStep(self)), !.meta = TRUE])]
             ELSE fs
    /\ pc' = "check"
    /\ UNCHANGED <<self, loc, ret, lr_gen, mergeVars, lrVars, fnVars>>

\* if g_step > max_global_step: break, out of the batch loop and the epoch loop
TrainCheck ==
    /\ pc = "check"
    /\ IF loc.g_step > Hp("max_global_step")
       THEN /\ pc' = "idle"
            /\ ret' = [ret EXCEPT !.raised = ""]
            /\ loc' = NoLoc
            /\ lr_gen' = NoGen
       ELSE /\ pc' = "batch"
            /\ UNCHANGED <<ret, loc, lr_gen>>
    /\ UNCHANGED <<self, fs, mergeVars, lrVars, fnVars>>

(***************************************************************************)
(* Seq2seq.__init__: a new instance, as each run of the program makes one. *)
(* The id is a string of random digits.                                    *)
(***************************************************************************)
\* the hyperparameters given to the constructor by the runs of the model
Overrides ==
    {NoOverride,
     [NoOverride EXCEPT !.epoch = I(2)],
     [NoOverride EXCEPT !.train_batch_size = I(1), !.epoch = I(1), !.save_every = I(1)]}

Construct(id, init_hyparams) ==
    /\ pc = "idle"
    /\ self' = NewInstance(id, init_hyparams)
    /\ ret' = Ret("__init__", "")
    /\ UNCHANGED <<fs, pc, loc, lr_gen, mergeVars, lrVars, fnVars>>

(***************************************************************************)
(* Seq2seq._get_ngrams and Seq2seq._bleu.  A score is held exactly: it is  *)
(* 0.0, or exp of a fraction (geo_mean and bp are both np.exp of one).     *)
(***************************************************************************)
RatAdd(a, b) == <<a[1] * b[2] + b[1] * a[2], a[2] * b[2]>>
RatLess(a, b) == a[1] * b[2] < b[1] * a[2]

RECURSIVE SeqSum(_)
SeqSum(s) == IF s = <<>> THEN 0 ELSE s[1] + SeqSum(Tail(s))

RECURSIVE RatSeqSum(_)
RatSeqSum(s) == IF s = <<>> THEN <<0, 1>> ELSE RatAdd(s[1], RatSeqSum(Tail(s)))

RECURSIVE SumOver(_, _)
SumOver(f, S) ==
    IF S = {} THEN 0
    ELSE LET x == CHOOSE y \in S : TRUE IN f[x] + SumOver(f, S \ {x})

\* the Counter of the n-grams of segment of orders 1..max_order
GetNgrams(segment, max_order) ==
    LET found == UNION {{SubSeq(segment, i, i + order - 1) :
                            i \in 1..(Len(segment) - order + 1)} :
                        order \in 1..max_order}
    IN  [g \in found |->
            Cardinality({i \in 1..(Len(segment) - Len(g) + 1) :
                            SubSeq(segment, i, i + Len(g) - 1) = g})]

\* gen_ngram_counts & refer_ngram_counts
CounterAnd(x, y) ==
    [g \in (DOMAIN x) \cap (DOMAIN y) |-> Min(x[g], y[g])]

\* the pairs zip(refer_lists, gen_lists) goes through
NZip(gen_lists, refer_lists) == Min(Len(gen_lists), Len(refer_lists))

ReferLength(gen_lists, refer_lists) ==
    SeqSum([k \in 1..NZip(gen_lists, refer_lists) |-> Len(refer_lists[k])])

GenLength(gen_lists, refer_lists) ==
    SeqSum([k \in 1..NZip(gen_lists, refer_lists) |-> Len(gen_lists[k])])

\* matches_by_order[order-1] after the loop
MatchesByOrder(gen_lists, refer_lists, max_order, order) ==
    SeqSum([k \in 1..NZip(gen_lists, refer_lists) |->
               LET overlap == CounterAnd(GetNgrams(gen_lists[k], max_order),
                                         GetNgrams(refer_lists[k], max_order))
               IN  SumOver(overlap, {g \in DOMAIN overlap : Len(g) = order})])

\* possible_matches_by_order[order-1] after the loop
PossibleMatchesByOrder(gen_lists, refer_lists, order) ==
    SeqSum([k \in 1..NZip(gen_lists, refer_lists) |->
               IF Len(gen_lists[k]) - order + 1 > 0
               THEN Len(gen_lists[k]) - order + 1 ELSE 0])

\* precisions, as fractions
Precisions(gen_lists, refer_lists, max_order, smooth) ==
    [i \in 1..max_order |->
        LET m == MatchesByOrder(gen_lists, refer_lists, max_order, i)
            p == PossibleMatchesByOrder(gen_lists, refer_lists, i)
        IN  IF smooth THEN <<m + 1, p + 1>>
            ELSE IF p > 0 THEN <<m, p>> ELSE <<0, 1>>]

BleuRaised(e) == [raised |-> e, zero |-> FALSE, exponent |-> <<0, 1>>]
BleuZero == [raised |-> "", zero |-> TRUE, exponent |-> <<0, 1>>]
BleuExp(x) == [raised |-> "", zero |-> FALSE, exponent |-> x]

\* _bleu(gen_lists, refer_lists, max_order, smooth): the error it raises, or
\* its score geo_mean * bp
Bleu(gen_lists, refer_lists, max_order, smooth) ==
    LET precisions == Precisions(gen_lists, refer_lists, max_order, smooth)
        positive == \A i \in 1..max_order : precisions[i][1] > 0
        p_log_sum == RatSeqSum([i \in 1..max_order |->
                                   RatMul(<<1, max_order>>, precisions[i])])
        refer_length == ReferLength(gen_lists, refer_lists)
        gen_length == GenLength(gen_lists, refer_lists)
    IN  IF refer_length = 0 THEN BleuRaised("ZeroDivisionError")
        ELSE IF gen_length > refer_length
        THEN (IF positive THEN BleuExp(p_log_sum) ELSE BleuZero)
        ELSE IF gen_length = 0 THEN BleuRaised("ZeroDivisionError")
        ELSE IF positive
        THEN BleuExp(RatAdd(p_log_sum, <<gen_length - refer_length, gen_length>>))
        ELSE BleuZero

\* the sentences, the lists of sentences and the orders _bleu is called with
BleuTokens == {"a", "b"}
SentencesUpTo(n) == UNION {[1..k -> BleuTokens] : k \in 0..n}
ExampleSentences == {<<"a", "b", "c">>, <<"a", "b", "c", "d">>, <<"x">>}
BleuSentences == SentencesUpTo(MaxSentLen) \cup ExampleSentences
BleuLists ==
    {<<>>} \cup {<<s>> : s \in BleuSentences}
           \cup {<<s, t>> : s \in SentencesUpTo(1), t \in SentencesUpTo(1)}
BleuOrders == {1, 2, 4}

InitBleu ==
    /\ \E g \in BleuLists, r \in BleuLists, o \in BleuOrders, sm \in BOOLEAN :
          bleu_args = [gen_lists |-> g, refer_lists |-> r, max_order |-> o, smooth |-> sm]
    /\ bleu_out = None

CallBleu ==
    /\ bleu_out = None
    /\ bleu_out' = Bleu(bleu_args.gen_lists, bleu_args.refer_lists,
                        bleu_args.max_order, bleu_args.smooth)
    /\ UNCHANGED <<bleu_args, mergeVars, lrVars, lr_gen, instVars, dictVars, seqVars, padVars, tokVars>>

(***************************************************************************)
(* Seq2seq._parse_dict.  A file is its lines, a line the words that        *)
(* split() finds in it; lower() is applied to the line before the split.   *)
(***************************************************************************)
\* str.lower on a word
Lower(w) == IF w = "A" THEN "a" ELSE IF w = "B" THEN "b" ELSE w

\* line.lower().split()
LowerSplit(line) == [i \in 1..Len(line) |-> Lower(line[i])]

RECURSIVE Flatten(_)
Flatten(lines) ==
    IF lines = <<>> THEN <<>> ELSE LowerSplit(lines[1]) \o Flatten(Tail(lines))

\* the keys of a Counter over the words, in the order they were first counted
RECURSIVE CounterKeys(_, _)
CounterKeys(words, seen) ==
    IF words = <<>> THEN <<>>
    ELSE IF words[1] \in seen THEN CounterKeys(Tail(words), seen)
    ELSE <<words[1]>> \o CounterKeys(Tail(words), seen \cup {words[1]})

CountOf(w, words) == Cardinality({i \in 1..Len(words) : words[i] = w})

\* sorted(items, key=count, reverse=True): a stable sort, so words of equal
\* count stay in the order of the Counter
RECURSIVE InsertByCount(_, _)
InsertByCount(item, sorted) ==
    IF sorted = <<>> THEN <<item>>
    ELSE IF sorted[1].count >= item.count
    THEN <<sorted[1]>> \o InsertByCount(item, Tail(sorted))
    ELSE <<item>> \o sorted

RECURSIVE SortByCount(_)
SortByCount(items) ==
    IF items = <<>> THEN <<>>
    ELSE InsertByCount(items[Len(items)],
                       SortByCount(SubSeq(items, 1, Len(items) - 1)))

\* word_count.most_common()
MostCommon(words) ==
    LET keys == CounterKeys(words, {})
    IN  SortByCount([i \in 1..Len(keys) |->
                        [word |-> keys[i], count |-> CountOf(keys[i], words)]])

\* mutant: a word is kept only while the covered share is below the rate
RECURSIVE KeptBelowRate(_, _, _, _)
KeptBelowRate(ranking, cur_count, n_words, rate) ==
    IF ranking = <<>> THEN <<>>
    ELSE LET c == cur_count + ranking[1].count
         IN  IF c * rate[2] < rate[1] * n_words
             THEN <<ranking[1].word>> \o KeptBelowRate(Tail(ranking), c, n_words, rate)
             ELSE <<>>

\* the words the filter loop appends to vocabs, from cur_count on
RECURSIVE Kept(_, _, _, _)
Kept(ranking, cur_count, n_words, rate) ==
    IF ranking = <<>> THEN <<>>
    ELSE LET c == cur_count + ranking[1].count
         IN  IF c * rate[2] <= rate[1] * n_words
             THEN <<ranking[1].word>> \o Kept(Tail(ranking), c, n_words, rate)
             ELSE <<>>

\* _parse_dict on a file under vocab_remain_rate
ParseDict(lines, rate) ==
    LET words == Flatten(lines)
        vocabs == Reserved \o Kept(MostCommon(words), 0, Len(words), rate)
    IN  [int_to_vocab |-> IntToVocab(vocabs), vocab_to_int |-> VocabToInt(vocabs)]

\* the files and the rates _parse_dict is called with
RawWords == {"a", "b", "A"}
LinesUpTo(n) == UNION {[1..k -> RawWords] : k \in 0..n}
FilesUpTo(n, m) == UNION {[1..k -> LinesUpTo(m)] : k \in 0..n}
RemainRates == {R(1, 2), R(3, 4), R(97, 100), R(1, 1)}

InitDict ==
    /\ \E f \in FilesUpTo(MaxLines, MaxLineLen), r \in RemainRates :
          dict_args = [lines |-> f, vocab_remain_rate |-> r]
    /\ dict_out = None

CallParseDict ==
    /\ dict_out = None
    /\ dict_out' = <<ParseDict(dict_args.lines, dict_args.vocab_remain_rate)>>
    /\ UNCHANGED <<dict_args, mergeVars, lrVars, lr_gen, instVars, bleuVars, seqVars, padVars, tokVars>>

(***************************************************************************)
(* Seq2seq._parse_seq, a step at a time: the assertion on the line counts, *)
(* one pass of the loop for every pair of lines, the bucketizing.          *)
(***************************************************************************)
Max(a, b) == IF a >= b THEN a ELSE b

\* [vocab_to_int.get(word, unk_id) for word in words]
ToIds(words, vocab_to_int) ==
    [i \in 1..Len(words) |->
        IF words[i] \in DOMAIN vocab_to_int THEN vocab_to_int[words[i]]
        ELSE vocab_to_int["<UNK>"]]

\* cur_encode_n_unk, cur_decode_n_unk
NUnk(words, vocab_to_int) ==
    Cardinality({i \in 1..Len(words) : words[i] \notin DOMAIN vocab_to_int})

\* input_seq_min_len <= len(words) <= input_seq_max_len
LenWithin(words, a) ==
    IntOf(a.input_seq_min_len) <= Len(words) /\ Len(words) <= IntOf(a.input_seq_max_len)

\* the test of a pair for being appended to the parsed lines; the second
\* line is not looked at when the first is outside the length bounds
PairKept(enc_words, dec_words, a) ==
    /\ LenWithin(enc_words, a)
    /\ LenWithin(dec_words, a)
    /\ Len(enc_words) > 0
    /\ Len(dec_words) > 0
    /\ RatLess(<<NUnk(enc_words, a.encoder_vocab_to_int), Len(enc_words)>>, <<1, 5>>)
    /\ RatLess(<<NUnk(dec_words, a.decoder_vocab_to_int), Len(dec_words)>>, <<1, 5>>)

SeqStart == [pc |-> "assert", i |-> 0, parsed_encode_lines |-> <<>>,
             parsed_decode_lines |-> <<>>, decode_idxs |-> <<>>, raised |-> ""]

\* mutant: the loop is entered whatever the line counts
ParseSeqNoAssert ==
    /\ seq.pc = "assert"
    /\ seq' = [seq EXCEPT !.pc = "loop"]
    /\ UNCHANGED <<seq_args, mergeVars, lrVars, lr_gen, instVars, bleuVars, dictVars, padVars, tokVars>>

\* the assert on the line counts and what comes before the loop
ParseSeqAssert ==
    /\ seq.pc = "assert"
    /\ IF Len(seq_args.encode_lines) = Len(seq_args.decode_lines)
       THEN seq' = [seq EXCEPT !.pc = "loop"]
       ELSE seq' = [seq EXCEPT !.pc = "done", !.raised = "AssertionError"]
    /\ UNCHANGED <<seq_args, mergeVars, lrVars, lr_gen, instVars, bleuVars, dictVars, padVars, tokVars>>

\* one pass of the loop over zip(encode_lines, decode_lines)
ParseSeqLine ==
    /\ seq.pc = "loop"
    /\ seq.i < Len(seq_args.encode_lines)
    /\ LET enc_words == LowerSplit(seq_args.encode_lines[seq.i + 1])
           dec_words == LowerSplit(seq_args.decode_lines[seq.i + 1])
       IN  IF PairKept(enc_words, dec_words, seq_args)
           THEN seq' = [seq EXCEPT
                           !.i = @ + 1,
                           !.parsed_encode_lines =
                               Append(@, ToIds(enc_words, seq_args.encoder_vocab_to_int)),
                           !.parsed_decode_lines =
                               Append(@, ToIds(dec_words, seq_args.decoder_vocab_to_int))]
           ELSE seq' = [seq EXCEPT !.i = @ + 1]
    /\ UNCHANGED <<seq_args, mergeVars, lrVars, lr_gen, instVars, bleuVars, dictVars, padVars, tokVars>>

\* b_id of the pair at index k (from 1) of the parsed lines
BucketId(enc, dec, k, n_buckets) ==
    LET max_encode_len == CHOOSE m \in {Len(enc[j]) : j \in 1..Len(enc)} :
                              \A j \in 1..Len(enc) : Len(enc[j]) <= m
        bucket_width == (max_encode_len + n_buckets - 1) \div n_buckets
    IN  Max(Len(enc[k]), Len(dec[k])) \div bucket_width

\* mutant: a bucket holds the last index put into it only, over and over
DecodeIdxsOverwritten(enc, dec, n_buckets) ==
    {[j \in 1..Len(enc) |->
        CHOOSE k \in 1..Len(enc) :
            /\ BucketId(enc, dec, k, n_buckets) = BucketId(enc, dec, j, n_buckets)
            /\ \A m \in 1..Len(enc) :
                   BucketId(enc, dec, m, n_buckets) = BucketId(enc, dec, j, n_buckets)
                       => m <= k]}

\* the lists decode_idxs can be: the buckets in the order of their ids, the
\* indices of one bucket in the order the iteration of a set gives them, which
\* the language leaves open
DecodeIdxs(enc, dec, n_buckets) ==
    {idxs \in [1..Len(enc) -> 1..Len(enc)] :
        /\ \A j, k \in 1..Len(enc) : j # k => idxs[j] # idxs[k]
        /\ \A j \in 1..(Len(enc) - 1) :
               BucketId(enc, dec, idxs[j], n_buckets)
                   <= BucketId(enc, dec, idxs[j + 1], n_buckets)}

\* the end of the loop, the bucketizing when n_buckets > 1, and the return
ParseSeqReturn ==
    /\ seq.pc = "loop"
    /\ seq.i = Len(seq_args.encode_lines)
    /\ LET n_buckets == IntOf(seq_args.n_buckets)
           enc == seq.parsed_encode_lines
           dec == seq.parsed_decode_lines
       IN  IF n_buckets > 1
           THEN IF enc = <<>>
                THEN seq' = [seq EXCEPT !.pc = "done", !.raised = "ValueError"]
                ELSE \E idxs \in DecodeIdxs(enc, dec, n_buckets) :
                        seq' = [seq EXCEPT
                                   !.pc = "done",
                                   !.decode_idxs = idxs,
                                   !.parsed_encode_lines = [j \in 1..Len(enc) |-> enc[idxs[j]]],
                                   !.parsed_decode_lines = [j \in 1..Len(enc) |-> dec[idxs[j]]]]
           ELSE seq' = [seq EXCEPT !.pc = "done"]
    /\ UNCHANGED <<seq_args, mergeVars, lrVars, lr_gen, instVars, bleuVars, dictVars, padVars, tokVars>>

\* the files, the dictionaries and the hyperparameters _parse_seq is called with
SeqFileLines ==
    {<<>>, <<"A">>, <<"x">>, <<"a", "b">>, <<"a", "a", "a", "a", "x">>,
     <<"a", "a", "a", "a", "a", "x">>}
SeqFiles == UNION {[1..k -> SeqFileLines] : k \in 0..MaxSeqLines}
SeqVocab == VocabToInt(Reserved \o <<"a", "b">>)
SeqLenBounds == {<<I(1), I(Inf)>>, <<I(2), I(5)>>}
SeqBuckets == {I(0), I(2)}

InitSeq ==
    /\ \E e \in SeqFiles, d \in SeqFiles, b \in SeqLenBounds, n \in SeqBuckets :
          seq_args = [encode_lines |-> e, decode_lines |-> d,
                      encoder_vocab_to_int |-> SeqVocab,
                      decoder_vocab_to_int |-> SeqVocab,
                      input_seq_min_len |-> b[1], input_seq_max_len |-> b[2],
                      n_buckets |-> n]
    /\ seq = SeqStart

NextSeq ==
    \/ ParseSeqAssert
    \/ ParseSeqLine
    \/ ParseSeqReturn

(***************************************************************************)
(* Seq2seq._padding_batch, a generator: a call of next() runs its frame up  *)
(* to the next yield, or to the end of the function.                       *)
(***************************************************************************)
\* np.max of a list of lengths
MaxOf(lens) == CHOOSE m \in {lens[j] : j \in 1..Len(lens)} :
                   \A j \in 1..Len(lens) : lens[j] <= m

\* mutant: the line as it is
PaddedNot(line, padding_val, cur_maxLen) == line

\* line + [padding_val] * (cur_maxLen - len(line))
Padded(line, padding_val, cur_maxLen) ==
    [j \in 1..cur_maxLen |-> IF j <= Len(line) THEN line[j] ELSE padding_val]

\* the tuple yielded at the pass i (from 0) of the for loop
PaddingBatch(a, i) ==
    LET start_i == i * a.batch_size
        batch_inputs == SubSeq(a.inputs, start_i + 1, start_i + a.batch_size)
        batch_targets == [j \in 1..a.batch_size |->
                             Append(a.targets[start_i + j], a.decoder_eos_id)]
        batch_inputs_lens == [j \in 1..a.batch_size |-> Len(batch_inputs[j])]
        batch_targets_lens == [j \in 1..a.batch_size |-> Len(batch_targets[j])]
        inputs_cur_maxLen == MaxOf(batch_inputs_lens)
        targets_cur_maxLen == MaxOf(batch_targets_lens)
    IN  [padding_batch_inputs |->
             [j \in 1..a.batch_size |->
                 Padded(batch_inputs[j], a.input_padding_val, inputs_cur_maxLen)],
         inputs_lens |-> [j \in 1..a.batch_size |-> inputs_cur_maxLen],
         padding_batch_targets |->
             [j \in 1..a.batch_size |->
                 Padded(batch_targets[j], a.target_padding_val, targets_cur_maxLen)],
         targets_lens |-> [j \in 1..a.batch_size |-> targets_cur_maxLen]]

\* range(0, len(targets) // batch_size)
NPasses(a) == Len(a.targets) \div a.batch_size

PadStart == [pc |-> "suspended", i |-> 0, yielded |-> <<>>]

\* the caller calls next() on the generator
PadNext ==
    /\ pad.pc = "suspended"
    /\ Len(pad.yielded) < MaxNext
    /\ pad' = [pad EXCEPT !.pc = "running"]
    /\ UNCHANGED <<pad_args, mergeVars, lrVars, lr_gen, instVars, bleuVars, dictVars, seqVars, tokVars>>

\* a pass of the for loop: the batch is put together and yielded
PadYield ==
    /\ pad.pc = "running"
    /\ pad.i < NPasses(pad_args)
    /\ pad' = [pad EXCEPT !.pc = "suspended",
                          !.i = @ + 1,
                          !.yielded = Append(@, PaddingBatch(pad_args, pad.i))]
    /\ UNCHANGED <<pad_args, mergeVars, lrVars, lr_gen, instVars, bleuVars, dictVars, seqVars, tokVars>>

\* the for loop is exhausted: the function ends, or the while loop starts the
\* for loop anew
PadLoopEnd ==
    /\ pad.pc = "running"
    /\ pad.i >= NPasses(pad_args)
    /\ pad' = IF pad_args.forever
              THEN [pad EXCEPT !.i = 0]
              ELSE [pad EXCEPT !.pc = "stopped"]
    /\ UNCHANGED <<pad_args, mergeVars, lrVars, lr_gen, instVars, bleuVars, dictVars, seqVars, tokVars>>

\* the sequences, batch sizes and flags _padding_batch is called with
PadEncodeSeqs == {<<4>>, <<4, 5>>}
PadDecodeSeqs == {<<6>>, <<6, 7, 6>>}
PadBatchSizes == {1, 2}
PadLists(seqs) == UNION {[1..n -> seqs] : n \in 0..MaxPairs}

InitPad ==
    /\ \E inputs \in PadLists(PadEncodeSeqs), targets \in PadLists(PadDecodeSeqs),
          batch_size \in PadBatchSizes, forever \in BOOLEAN :
          /\ Len(inputs) = Len(targets)
          /\ pad_args = [inputs |-> inputs, targets |-> targets,
                          batch_size |-> batch_size,
                          input_padding_val |-> 0, target_padding_val |-> 0,
                          decoder_eos_id |-> 3, forever |-> forever]
    /\ pad = PadStart

NextPad ==
    \/ PadNext
    \/ PadYield
    \/ PadLoopEnd

(***************************************************************************)
(* The parsing of a string into encoder ids, by Seq2seq.predict and by     *)
(* Seq2seq._parse_seq.  A string is held as its words between white space. *)
(***************************************************************************)
\* TextProcessor.process_str(word).split() on a word of TokWords: of the eight
\* substitutions only proc6, which sets a run of , . ! ? ; apart by spaces,
\* changes one of these words; none of them changes the case of a letter
ProcessWord(w) == IF w = "a," THEN <<"a", ",">> ELSE <<w>>

\* self.tp.process_str(encode_str).split()
RECURSIVE ProcessSplit(_)
ProcessSplit(encode_str) ==
    IF encode_str = <<>> THEN <<>>
    ELSE ProcessWord(encode_str[1]) \o ProcessSplit(Tail(encode_str))

\* predict: inputs[0]
PredictInputs(encode_str, encoder_vocab_to_int) ==
    ToIds(ProcessSplit(encode_str), encoder_vocab_to_int)

\* _parse_seq: cur_encode_line of the line
ParsedEncodeLine(encode_line, encoder_vocab_to_int) ==
    ToIds(LowerSplit(encode_line), encoder_vocab_to_int)

TokWords == {"a", "A", "b", "x", "a,"}
TokStrings == UNION {[1..k -> TokWords] : k \in 0..MaxTokens}

InitTok ==
    /\ \E st \in TokStrings : tok_args = [string |-> st, encoder_vocab_to_int |-> SeqVocab]
    /\ tok_out = None

\* the string given to predict, and met by _parse_seq as a line of the source file
CallParsers ==
    /\ tok_out = None
    /\ tok_out' = [inputs |-> PredictInputs(tok_args.string, tok_args.encoder_vocab_to_int),
                   cur_encode_line |->
                       ParsedEncodeLine(tok_args.string, tok_args.encoder_vocab_to_int)]
    /\ UNCHANGED <<tok_args, mergeVars, lrVars, lr_gen, instVars, bleuVars, dictVars, seqVars,
                   padVars>>

(***************************************************************************)
(* The specifications                                                      *)
(***************************************************************************)
NoMerge == mBase = None /\ mNew = None /\ mOut = None
NoLr == lr_args = NoLrArgs /\ lr_out = <<>>
NoBleu == bleu_args = None /\ bleu_out = None
NoDict == dict_args = None /\ dict_out = None
NoSeq == seq_args = None /\ seq = None
NoPad == pad_args = None /\ pad = None
NoTok == tok_args = None /\ tok_out = None
NoFn == NoBleu /\ NoDict /\ NoSeq /\ NoPad /\ NoTok /\ NoTok
NoInstance ==
    /\ self = NewInstance("a", NoOverride)
    /\ fs = [p \in DirPaths |-> None]
    /\ pc = "idle"
    /\ loc = NoLoc
    /\ ret = Ret("__init__", "")

\* _merge on every pair of two-field tuples
InitSpecMerge == InitMerge /\ NoLr /\ lr_gen = NoGen /\ NoInstance /\ NoFn

SpecMerge == InitSpecMerge /\ [][CallMerge]_vars

\* one lr_schedule generator, drawn from MaxYield times
InitSpecLr == InitLr /\ NoMerge /\ NoInstance /\ NoFn

SpecLr == InitSpecLr /\ [][NextLr]_vars

\* _bleu on every pair of lists of sentences
InitSpecBleu ==
    InitBleu /\ NoMerge /\ NoLr /\ lr_gen = NoGen /\ NoInstance /\ NoDict /\ NoSeq /\ NoPad /\ NoTok

SpecBleu == InitSpecBleu /\ [][CallBleu]_vars

\* _parse_dict on every file
InitSpecDict ==
    InitDict /\ NoMerge /\ NoLr /\ lr_gen = NoGen /\ NoInstance /\ NoBleu /\ NoSeq /\ NoPad /\ NoTok

SpecDict == InitSpecDict /\ [][CallParseDict]_vars

\* _parse_seq on every pair of files
InitSpecSeq ==
    InitSeq /\ NoMerge /\ NoLr /\ lr_gen = NoGen /\ NoInstance /\ NoBleu /\ NoDict /\ NoPad /\ NoTok

SpecSeq == InitSpecSeq /\ [][NextSeq]_vars

\* one _padding_batch generator, drawn from MaxNext times
InitSpecPad ==
    InitPad /\ NoMerge /\ NoLr /\ lr_gen = NoGen /\ NoInstance /\ NoBleu /\ NoDict /\ NoSeq
        /\ NoTok

SpecPad == InitSpecPad /\ [][NextPad]_vars

\* the same, where the frame of a generator that was resumed goes on running
SpecPadFair == SpecPad /\ WF_vars(PadYield \/ PadLoopEnd)

\* predict and _parse_seq on every string
InitSpecTok ==
    InitTok /\ NoMerge /\ NoLr /\ lr_gen = NoGen /\ NoInstance /\ NoBleu /\ NoDict /\ NoSeq
        /\ NoPad

SpecTok == InitSpecTok /\ [][CallParsers]_vars

\* training runs of one instance, fresh and resumed, one after the other
TrainOverrides ==
    {[NoOverride EXCEPT !.valid_portion = vp, !.train_batch_size = bs, !.epoch = ep,
                        !.max_global_step = mx, !.decay_start_at = I(1),
                        !.decay_every = I(2), !.report_every = rp, !.show_every = sh,
                        !.save_every = sv]
        : vp \in {None, R(1, 2)}, bs \in {I(1), I(2)}, ep \in {I(1), I(2)},
          mx \in {None, I(2)}, rp \in {None, I(2)}, sh \in {None, I(2), I(3)},
          sv \in {None, I(2)}}

InitTrain ==
    /\ NoMerge /\ NoLr /\ lr_gen = NoGen /\ NoFn
    /\ \E o \in TrainOverrides : self = NewInstance("a", o)
    /\ fs = [p \in DirPaths |-> None]
    /\ pc = "idle"
    /\ loc = NoLoc
    /\ ret = Ret("__init__", "")

NextTrain ==
    \/ \E n \in 0..MaxSeqs, built \in BOOLEAN : TrainFresh(n, built)
    \/ \E path \in DirPaths, n \in 0..MaxSeqs :
          CkptWithin(path, MaxCkptStep) /\ TrainResume(path, n)
    \/ TrainSetup
    \/ TrainStep
    \/ TrainEpochEnd
    \/ TrainReport
    \/ TrainShow
    \/ TrainSave
    \/ TrainCheck

SpecTrain == InitTrain /\ [][NextTrain]_vars

\* the instance and the disk over several runs of the program.  A directory
\* found at the start is a whole checkpoint, or one with a single file missing.
PretrainedHyparams ==
    Merge(DefaultHyparams, [NoOverride EXCEPT !.train_batch_size = I(1), !.epoch = I(2)])

WholeCheckpoint ==
    [checkpoint |-> I(RunCkptStep), meta |-> TRUE,
     dictionary |-> Some(CorpusDictionary(1)), hparams |-> Some(PretrainedHyparams),
     tensorboard |-> TRUE]

PretrainedDirs ==
    {None,
     Some(WholeCheckpoint),
     Some([WholeCheckpoint EXCEPT !.checkpoint = None]),
     Some([WholeCheckpoint EXCEPT !.meta = FALSE]),
     Some([WholeCheckpoint EXCEPT !.dictionary = None]),
     Some([WholeCheckpoint EXCEPT !.hparams = None])}

Init ==
    /\ NoMerge /\ NoLr /\ lr_gen = NoGen /\ NoFn
    /\ \E id \in Ids, o \in Overrides : self = NewInstance(id, o)
    /\ \E d \in PretrainedDirs :
          fs = [p \in DirPaths |-> IF p = PretrainedDir THEN d ELSE None]
    /\ pc = "idle"
    /\ loc = NoLoc
    /\ ret = Ret("__init__", "")

Next ==
    \/ \E id \in Ids, o \in Overrides : Construct(id, o)
    \/ \E id \in Ids : SetId(id)
    \/ \E path \in DirPaths : Load(path)
    \/ Predict
    \/ \E built \in BOOLEAN : TrainFresh(RunSeqs, built)
    \/ \E path \in DirPaths : CkptWithin(path, RunCkptStep) /\ TrainResume(path, RunSeqs)
    \/ TrainSetup
    \/ TrainStep
    \/ TrainEpochEnd
    \/ TrainReport
    \/ TrainShow
    \/ TrainSave
    \/ TrainCheck

Spec == Init /\ [][Next]_vars

MergeExample ==
    (/\ mOut # None
     /\ mBase = [x |-> I(4), y |-> None]
     /\ mNew = [x |-> None, y |-> I(7)])
        => mOut[1] = [x |-> I(4), y |-> I(7)]

MergeExampleDone ==
    /\ mOut # None
    /\ mBase = [x |-> I(4), y |-> None]
    /\ mNew = [x |-> None, y |-> I(7)]
    /\ mOut[1].x = I(4)
    /\ mOut[1].y = I(7)

\* the directory or one of 'checkpoint', 'dictionary', 'hparams' is missing
Incomplete(disk, path) ==
    \/ ~IsDir(disk, path)
    \/ disk[path][1].checkpoint = None
    \/ disk[path][1].dictionary = None
    \/ disk[path][1].hparams = None

\* C3: on every instance and disk the program reaches, load of a path whose
\* directory, checkpoint index, dictionary or hparams file is missing raises
\* and leaves the instance with the graph and the session it had (none, if it
\* had none); so a load that returns had all of them.
LoadNeedsAllFiles ==
    \A path \in DirPaths :
        Incomplete(fs, path) =>
            /\ LoadOf(self, fs, path).raised # ""
            /\ LoadOf(self, fs, path).self.sess = self.sess
            /\ LoadOf(self, fs, path).self.graph = self.graph

LoadRaisedOnMissingFile ==
    /\ ret.op = "load"
    /\ ret.raised = "ValueError"
    /\ IsDir(fs, self.model_ckpt_dir)
    /\ fs[self.model_ckpt_dir][1].checkpoint # None
    /\ fs[self.model_ckpt_dir][1].dictionary = None
    /\ self.sess = None
    /\ self.graph = ""

TrainReturnsSaved ==
    (pc = "idle" /\ ret.op = "_train" /\ ret.raised = "") =>
        /\ IsDir(fs, self.model_ckpt_dir)
        /\ fs[self.model_ckpt_dir][1].checkpoint = self.sess[1].global_step

\* C6: in a training run the global step never becomes greater than
\* max_global_step.
StepWithinMax ==
    pc \in {"report", "show", "save", "check"} =>
        GlobalStep(self) <= Hp("max_global_step")

\* C7: a training run that has started is never at a step that does not
\* return: it is over, or its next step can be taken.
TrainNeverBlocks == pc = "idle" \/ ENABLED NextTrain

\* times the rate has been multiplied by decay_rate when the counter is k
Decays(k, start, every) ==
    IF k <= start THEN 0 ELSE (k - start - 1) \div every + 1

\* the scheduled rate for the global step g under the hyperparameters hyp
ScheduledLr(hyp, g) ==
    RatMul(AsRat(hyp.learning_rate),
           RatPow(AsRat(hyp.decay_rate),
                  Decays(g, IntOf(hyp.decay_start_at), IntOf(hyp.decay_every))))

\* C8: the rate fed to an optimizer step, in a fresh run and in a resumed
\* one, is the scheduled rate for the global step at which it is fed.
LrFollowsGlobalStep ==
    pc \in {"report", "show", "save", "check"} =>
        RatEq(loc.lr_val, ScheduledLr(self.hyparams, IntOf(loc.fed_at)))

\* C9: the k-th value of lr_schedule(lr, start, every, decay), k from 0, is
\* lr times decay to the power Decays(k, start, every); lr=0.1, start=2,
\* every=3, decay=0.5 gives 0.1, 0.1, 0.1, 0.05, 0.05, 0.05.
LrExample == [lr |-> R(1, 10), start_p |-> 2, every_step |-> 3, decay_rate |-> R(1, 2)]

PredictLoadsLazily ==
    [][Predict =>
          IF self.sess = None
          THEN /\ ret'.load_path = Some(self.model_ckpt_dir)
               /\ self' = LoadOf(self, fs, self.model_ckpt_dir).self
          ELSE /\ ret'.load_path = None
               /\ self' = self]_vars

PredictLoaded ==
    /\ ret.op = "predict"
    /\ ret.raised = ""
    /\ ret.load_path = Some(self.model_ckpt_dir)
    /\ self.sess # None

\* C11: set_id(new_id) raises when <model_path>/new_id is a directory, and then
\* the id, both checkpoint paths and the disk are as before; otherwise the id
\* is new_id, both paths are those of new_id's directory, and the old
\* checkpoint directory, if there was one, is now the new one.
SetIdRaisesOrRenames ==
    [][\A new_id \in Ids :
          SetId(new_id) =>
              IF IsDir(fs, Join(ModelPath, new_id))
              THEN /\ ret'.raised = "RuntimeError"
                   /\ self' = self
                   /\ fs' = fs
              ELSE /\ ret'.raised = ""
                   /\ self'.id = new_id
                   /\ self'.model_ckpt_dir = Join(ModelPath, new_id)
                   /\ self'.model_ckpt_path = Join(self'.model_ckpt_dir, "checkpoint.ckpt")
                   /\ IF IsDir(fs, self.model_ckpt_dir)
                      THEN /\ fs'[self'.model_ckpt_dir] = fs[self.model_ckpt_dir]
                           /\ ~IsDir(fs', self.model_ckpt_dir)
                           /\ \A p \in DirPaths \ {self.model_ckpt_dir, self'.model_ckpt_dir} :
                                  fs'[p] = fs[p]
                      ELSE fs' = fs]_vars

SetIdRaised ==
    /\ ret.op = "set_id"
    /\ ret.raised = "RuntimeError"
    /\ \E id \in Ids : id # self.id /\ IsDir(fs, Join(ModelPath, id))
    /\ IsDir(fs, self.model_ckpt_dir)

\* C12, as claimed: after a construction, a set_id or a load, the checkpoint
\* directory is <model_path>/<id> and the checkpoint path is
\* <checkpoint directory>/checkpoint.ckpt.
CkptDirIsModelPathId ==
    ret.op \in {"__init__", "set_id", "load"} =>
        /\ self.model_ckpt_dir = Join(ModelPath, self.id)
        /\ self.model_ckpt_path = Join(self.model_ckpt_dir, "checkpoint.ckpt")

\* C12, amended: the checkpoint path is <checkpoint directory>/checkpoint.ckpt
\* and the id is the last component of the checkpoint directory; the directory
\* is <model_path>/<id> unless it is a directory outside the model path that
\* the instance loaded.
CkptDirNamedById ==
    /\ self.model_ckpt_path = Join(self.model_ckpt_dir, "checkpoint.ckpt")
    /\ self.id = self.model_ckpt_dir[Len(self.model_ckpt_dir)]
    /\ \/ self.model_ckpt_dir = Join(ModelPath, self.id)
       \/ /\ self.model_ckpt_dir = PretrainedDir
          /\ IsDir(fs, PretrainedDir)

LoadedOutsideModelPath ==
    /\ ret.op = "load"
    /\ ret.raised = ""
    /\ self.model_ckpt_dir = PretrainedDir
    /\ self.id = "a"
    /\ self.model_ckpt_dir # Join(ModelPath, self.id)

\* C13: from the end of the first branch of a fresh-start run on, so before
\* its first optimizer step and at every later one, the checkpoint directory
\* holds the dictionary file and the hparams file of the run.
FilesBeforeFirstStep ==
    (pc # "idle" /\ loc.load_model_path = None) =>
        /\ IsDir(fs, self.model_ckpt_dir)
        /\ fs[self.model_ckpt_dir][1].dictionary = self.dictionary
        /\ fs[self.model_ckpt_dir][1].hparams = Some(self.hyparams)

FilesThereAtFirstStep ==
    /\ pc = "batch"
    /\ loc.load_model_path = None
    /\ GlobalStep(self) = 0
    /\ loc.batch_i = 0
    /\ loc.n_batch > 0
    /\ fs[self.model_ckpt_dir][1].dictionary = self.dictionary
    /\ fs[self.model_ckpt_dir][1].hparams = Some(self.hyparams)

\* C14: a fresh-start run whose graph construction raises is over with the
\* session attribute as it was before the run (none, if there was none) and
\* the disk as it was; the session is made only in a run whose graph is built.
GraphFailureBeforeSession ==
    [][\A n \in 0..MaxSeqs :
          /\ (TrainFresh(n, FALSE) =>
                 /\ ret'.raised # ""
                 /\ pc' = "idle"
                 /\ self'.sess = self.sess
                 /\ fs' = fs)
          /\ ((TrainFresh(n, TRUE) /\ self'.sess # self.sess) =>
                 self'.graph = "model")]_vars

GraphFailedNoSession ==
    /\ ret.op = "_train"
    /\ ret.raised = "ValueError"
    /\ self.graph = "partial"
    /\ self.sess = None
    /\ ~IsDir(fs, self.model_ckpt_dir)

\* C15: _bleu([[a,b,c]], [[a,b,c]], max_order=4, smooth=True) returns 1.0.
BleuExactMatchIsOne ==
    (/\ bleu_out # None
     /\ bleu_args = [gen_lists |-> << <<"a", "b", "c">> >>,
                     refer_lists |-> << <<"a", "b", "c">> >>,
                     max_order |-> 4, smooth |-> TRUE])
        => /\ bleu_out.raised = ""
           /\ ~bleu_out.zero
           /\ RatEq(bleu_out.exponent, <<0, 1>>)

\* some order in 1..max_order has no possible match or no matched n-gram
SomeOrderEmpty(a) ==
    \E i \in 1..a.max_order :
        \/ PossibleMatchesByOrder(a.gen_lists, a.refer_lists, i) = 0
        \/ MatchesByOrder(a.gen_lists, a.refer_lists, a.max_order, i) = 0

\* C16: with smooth=False, _bleu returns 0.0 whenever some order has no
\* possible match or no matched n-gram.
BleuUnsmoothedZero ==
    (bleu_out # None /\ ~bleu_args.smooth /\ SomeOrderEmpty(bleu_args)) =>
        /\ bleu_out.raised = ""
        /\ bleu_out.zero

\* C17: _bleu raises on no input, whatever the lengths and the matches.
BleuNeverRaises == bleu_out # None => bleu_out.raised = ""

\* the words of a dictionary after the four reserved ones, by id
NonReserved(d) == [i \in 1..(Cardinality(DOMAIN d.int_to_vocab) - Len(Reserved)) |->
                      d.int_to_vocab[i + Len(Reserved) - 1]]

\* the summed frequency of the first k words of a ranking
RECURSIVE Mass(_, _)
Mass(ranking, k) == IF k = 0 THEN 0 ELSE ranking[k].count + Mass(ranking, k - 1)

\* C18: the words _parse_dict keeps after the reserved ones are the first k
\* of the ranking by descending frequency, their summed frequency is at most
\* rate * total, and the next word's frequency, if there is a next word, would
\* take the sum above rate * total.
DictCoversRate ==
    dict_out # None =>
        LET words == Flatten(dict_args.lines)
            total == Len(words)
            rate == dict_args.vocab_remain_rate
            ranking == MostCommon(words)
            kept == NonReserved(dict_out[1])
            k == Len(kept)
        IN  /\ \A i \in 1..(Len(ranking) - 1) : ranking[i].count >= ranking[i + 1].count
            /\ {ranking[i].word : i \in 1..Len(ranking)} = {words[i] : i \in 1..total}
            /\ \A i \in 1..Len(ranking) : ranking[i].count = CountOf(ranking[i].word, words)
            /\ k <= Len(ranking)
            /\ \A i \in 1..k : kept[i] = ranking[i].word
            /\ Mass(ranking, k) * rate[2] <= rate[1] * total
            /\ k < Len(ranking) => Mass(ranking, k + 1) * rate[2] > rate[1] * total

DictCutAtRate ==
    /\ dict_out # None
    /\ dict_args.vocab_remain_rate = R(1, 2)
    /\ dict_args.lines = << <<"b", "A">>, <<"a", "b">> >>
    /\ NonReserved(dict_out[1]) = <<"b">>

\* a parsed line has its length within the bounds and less than a fifth of
\* its ids are the id of <UNK>
LineAccepted(ids, a, vocab_to_int) ==
    /\ IntOf(a.input_seq_min_len) <= Len(ids)
    /\ Len(ids) <= IntOf(a.input_seq_max_len)
    /\ 5 * Cardinality({i \in 1..Len(ids) : ids[i] = vocab_to_int["<UNK>"]}) < Len(ids)

\* C19: on two files of equal line counts _parse_seq returns, without
\* raising, two lists of equal length whose pairs have on each side a length
\* within the bounds and a share of unknown ids below 0.2.
ParseSeqReturnsFiltered ==
    (seq # None /\ seq.pc = "done"
        /\ Len(seq_args.encode_lines) = Len(seq_args.decode_lines)) =>
        /\ seq.raised = ""
        /\ Len(seq.parsed_encode_lines) = Len(seq.parsed_decode_lines)
        /\ \A k \in 1..Len(seq.parsed_encode_lines) :
              /\ LineAccepted(seq.parsed_encode_lines[k], seq_args,
                              seq_args.encoder_vocab_to_int)
              /\ LineAccepted(seq.parsed_decode_lines[k], seq_args,
                              seq_args.decoder_vocab_to_int)

\* C20: on two files of different line counts _parse_seq raises, and it has
\* then gone through no pair of lines and holds no parsed line.
ParseSeqAssertsLineCounts ==
    (seq # None /\ seq.pc # "assert"
        /\ Len(seq_args.encode_lines) # Len(seq_args.decode_lines)) =>
        /\ seq.pc = "done"
        /\ seq.raised = "AssertionError"
        /\ seq.i = 0
        /\ seq.parsed_encode_lines = <<>>
        /\ seq.parsed_decode_lines = <<>>

ParseSeqAsserted ==
    /\ seq # None
    /\ seq.pc = "done"
    /\ seq.raised = "AssertionError"
    /\ Len(seq_args.encode_lines) = 2
    /\ Len(seq_args.decode_lines) = 1
    /\ PairKept(LowerSplit(seq_args.encode_lines[1]), LowerSplit(seq_args.decode_lines[1]),
                seq_args)

\* C21: the bucketizing of N pairs with n_buckets > 1 puts at the places
\* 1..N of both lists the pairs at decode_idxs[1..N] of the lists it found,
\* and decode_idxs has every index of 1..N once.
BucketizingPermutes ==
    [][(seq.pc = "loop" /\ seq'.pc = "done" /\ seq'.raised = ""
            /\ IntOf(seq_args.n_buckets) > 1) =>
        LET n == Len(seq.parsed_encode_lines)
            idxs == seq'.decode_idxs
        IN  /\ DOMAIN idxs = 1..n
            /\ {idxs[j] : j \in 1..n} = 1..n
            /\ seq'.parsed_encode_lines = [j \in 1..n |-> seq.parsed_encode_lines[idxs[j]]]
            /\ seq'.parsed_decode_lines = [j \in 1..n |-> seq.parsed_decode_lines[idxs[j]]]
            /\ Len(seq.parsed_decode_lines) = n]_vars

\* two pairs, the longer one first in the files, came out in the other order
BucketizingReordered ==
    /\ seq # None
    /\ seq.pc = "done"
    /\ seq.raised = ""
    /\ IntOf(seq_args.n_buckets) > 1
    /\ seq.decode_idxs = <<2, 1>>
    /\ Len(seq.parsed_encode_lines[1]) < Len(seq.parsed_encode_lines[2])

\* C25: after the bucketizing the pairs are in ascending order of their
\* bucket index, and of two pairs of one bucket the one that was first before
\* is first after.
BucketizingStable ==
    (seq # None /\ seq.pc = "done" /\ seq.raised = "" /\ IntOf(seq_args.n_buckets) > 1) =>
        LET enc == seq.parsed_encode_lines
            dec == seq.parsed_decode_lines
            b(j) == BucketId(enc, dec, j, IntOf(seq_args.n_buckets))
        IN  \A j, k \in 1..Len(enc) :
                j < k => /\ b(j) <= b(k)
                         /\ b(j) = b(k) => seq.decode_idxs[j] < seq.decode_idxs[k]

\* C22: with forever=False over N pairs the generator yields floor(N /
\* batch_size) batches before it ends; the batch i (from 0) has batch_size
\* rows on each side, the row j being the pair i*batch_size + j, the source
\* rows as wide as the longest source sequence of the batch and the target
\* rows as wide as its longest target sequence with the end token.
IsPrefix(line, row) == Len(line) <= Len(row) /\ SubSeq(row, 1, Len(line)) = line

PaddingBatchOnePass ==
    (pad # None /\ ~pad_args.forever) =>
        LET bs == pad_args.batch_size
            n == Len(pad_args.inputs)
        IN  /\ Len(pad.yielded) <= n \div bs
            /\ pad.pc = "stopped" => Len(pad.yielded) = n \div bs
            /\ \A k \in 1..Len(pad.yielded) :
                   LET b == pad.yielded[k]
                       window == {(k - 1) * bs + j : j \in 1..bs}
                   IN  /\ DOMAIN b.padding_batch_inputs = 1..bs
                       /\ DOMAIN b.padding_batch_targets = 1..bs
                       /\ \A j \in 1..bs :
                              LET src == pad_args.inputs[(k - 1) * bs + j]
                                  tgt == Append(pad_args.targets[(k - 1) * bs + j],
                                                pad_args.decoder_eos_id)
                                  row_s == b.padding_batch_inputs[j]
                                  row_t == b.padding_batch_targets[j]
                              IN  /\ IsPrefix(src, row_s)
                                  /\ IsPrefix(tgt, row_t)
                                  /\ \A m \in window : Len(pad_args.inputs[m]) <= Len(row_s)
                                  /\ \E m \in window : Len(pad_args.inputs[m]) = Len(row_s)
                                  /\ \A m \in window : Len(pad_args.targets[m]) + 1 <= Len(row_t)
                                  /\ \E m \in window : Len(pad_args.targets[m]) + 1 = Len(row_t)

\* three pairs in batches of two: one batch, of rows of unequal length padded
\* on both sides, and the generator ended
PaddingBatchOnePassDone ==
    /\ pad # None
    /\ ~pad_args.forever
    /\ pad.pc = "stopped"
    /\ pad_args.batch_size = 2
    /\ pad_args.inputs = <<<<4>>, <<4, 5>>, <<4>>>>
    /\ pad_args.targets = <<<<6, 7, 6>>, <<6>>, <<6>>>>
    /\ Len(pad.yielded) = 1
    /\ pad.yielded[1].padding_batch_inputs = <<<<4, 0>>, <<4, 5>>>>
    /\ pad.yielded[1].padding_batch_targets = <<<<6, 7, 6, 3>>, <<6, 3, 0, 0>>>>

\* C23: in every yielded batch the entry j of the input lengths is the number
\* of tokens of the source sequence j, and the entry j of the target lengths is
\* the number of tokens of the target sequence j with its end token.
PaddingBatchLensAreTokenCounts ==
    pad # None =>
        \A k \in 1..Len(pad.yielded) :
            LET b == pad.yielded[k]
                bs == pad_args.batch_size
                i == (k - 1) % NPasses(pad_args)
            IN  \A j \in 1..bs :
                    /\ b.inputs_lens[j] = Len(pad_args.inputs[i * bs + j])
                    /\ b.targets_lens[j] = Len(pad_args.targets[i * bs + j]) + 1

\* C24: on a generator made with forever=True every call of next() comes to a
\* yield.
PaddingBatchForeverYields ==
    (pad.pc = "running" /\ pad_args.forever) ~> (pad.pc = "suspended")

\* C26: in a training run no pair is in both the validation lists and the
\* training lists, every pair of the corpus is in one of them once, the entry
\* j of a list of sources and the entry j of its list of targets are of the
\* same pair, and the validation lists have
\* floor(floor(N * valid_portion) / train_batch_size) * train_batch_size pairs.
PairIdxs(seqs) == {seqs[j][2] : j \in 1..Len(seqs)}

SplitPartitionsCorpus ==
    pc \notin {"idle", "setup"} =>
        LET n == loc.n_seqs
            vp == AsRat(self.hyparams.valid_portion)
            bs == Hp("train_batch_size")
        IN  /\ PairIdxs(loc.valid_encode_seqs) \cap PairIdxs(loc.train_encode_seqs) = {}
            /\ PairIdxs(loc.valid_encode_seqs) \cup PairIdxs(loc.train_encode_seqs) = 0..(n - 1)
            /\ Len(loc.valid_encode_seqs) + Len(loc.train_encode_seqs) = n
            /\ Len(loc.valid_decode_seqs) = Len(loc.valid_encode_seqs)
            /\ Len(loc.train_decode_seqs) = Len(loc.train_encode_seqs)
            /\ \A j \in 1..Len(loc.valid_encode_seqs) :
                   /\ loc.valid_encode_seqs[j][1] = "encode"
                   /\ loc.valid_decode_seqs[j] = <<"decode", loc.valid_encode_seqs[j][2]>>
            /\ \A j \in 1..Len(loc.train_encode_seqs) :
                   /\ loc.train_encode_seqs[j][1] = "encode"
                   /\ loc.train_decode_seqs[j] = <<"decode", loc.train_encode_seqs[j][2]>>
            /\ Len(loc.valid_encode_seqs) = (((n * vp[1]) \div vp[2]) \div bs) * bs

\* a corpus of four pairs split into two for validation, not the first two,
\* and two for training
SplitDone ==
    /\ pc = "batch"
    /\ loc.n_seqs = 4
    /\ loc.valid_idx_set = {1, 3}
    /\ loc.valid_encode_seqs = <<<<"encode", 1>>, <<"encode", 3>>>>
    /\ loc.train_decode_seqs = <<<<"decode", 0>>, <<"decode", 2>>>>

\* C27: an example display at the step g shows what a validation report
\* computed at the step g, and no display is come to before the first
\* validation report of the run.
ShowUsesReportOfSameStep ==
    /\ loc.shown # None => loc.shown[1].of = loc.shown[1].at
    /\ ~(ret.op = "_train" /\ ret.raised = "UnboundLocalError")

\* C28: a run resumed from a checkpoint of global step G, with n_batch
\* batches to an epoch, enters the batch loop at the epoch 1 + G \div n_batch
\* with G % n_batch batches passed over, and the global step, which counts the
\* optimizer steps of the run before and of this one, stays within
\* epoch * n_batch.
ResumeContinuesEpochs ==
    [][/\ (pc = "setup" /\ pc' = "batch" /\ loc.load_model_path # None) =>
            /\ loc'.epoch_i = 1 + GlobalStep(self) \div loc'.n_batch
            /\ loc'.batch_i = GlobalStep(self) % loc'.n_batch
       /\ (/\ pc' \notin {"idle", "setup"}
           /\ loc'.load_model_path # None
           /\ loc'.restored_step <= IntOf(self'.hyparams.epoch) * loc'.n_batch) =>
            GlobalStep(self') <= IntOf(self'.hyparams.epoch) * loc'.n_batch]_vars

\* C29: a call of load(path) that raises leaves the instance as it was: its
\* id, its checkpoint directory and path, its dictionaries, its
\* hyperparameters, its graph and its session or the absence of one.
FailedLoadChangesNothing ==
    [][(pc = "idle" /\ ret'.op = "load" /\ ret'.raised # "") => self' = self]_vars

\* C30: predict makes of every word of a string the encoder id _parse_seq
\* makes of it in a line of the source file.
PredictParsesAsParseSeq ==
    tok_out # None => tok_out.inputs = tok_out.cur_encode_line
====
